---- MODULE Spec2Model ----
(***************************************************************************)
(* Model of mars_rover/rovercontroller.py: the RoverController, its rover  *)
(* collection and its bounding box.                                        *)
(*                                                                         *)
(* Angles are counted in units of pi/4, so that a heading <<az, zen>>      *)
(* stands for (az*pi/4, zen*pi/4): even values are the multiples of pi/2,  *)
(* odd values are headings that are not axis aligned.  sin and cos are     *)
(* tabulated in thousandths and int() truncates toward zero, as Python's   *)
(* int() does on the float product.                                        *)
(*                                                                         *)
(* The exceptions of the code are all of class Exception; they are told    *)
(* apart by their message and named here by the kind of failure:           *)
(*   'A Rover with id %s already exists'  -> "DuplicateId"                 *)
(*   'Rover %s could not be found'        -> "RoverNotFound"               *)
(*   'Rover can only move integer units'  -> "InvalidDistance"             *)
(*   'Rover can only turn orthognally'    -> "NonOrthogonalTurn"           *)
(*   'Rover already occupies %s'          -> "PositionOccupied"            *)
(*   'Position %s is out of grid'         -> "OutOfBounds"                 *)
(***************************************************************************)
EXTENDS Integers, Sequences, FiniteSets, TLC

VARIABLES vertices, rovers, pc, mv, result, line

vars == <<vertices, rovers, pc, mv, result, line>>

---------------------------------------------------------------------------
(* Bounds of the model *)

MaxCoord == 2

MaxAz == 8

MaxDist == 2

IDs == {"rover1", "rover2"}

\* The boxes a controller is constructed with: two diagonal vertices, in
\* either order on each axis.
Boxes == {<<<<0, 0, 0>>, <<MaxCoord, 0, 0>>>>,
          <<<<0, MaxCoord, 0>>, <<0, 0, 0>>>>,
          <<<<0, 0, 1>>, <<0, 0, 0>>>>}

\* The positions add_rover is called with: the cells of the three boxes, so
\* that each box has cells inside and outside it.
PosInputs == {<<c, 0, 0>> : c \in 0..MaxCoord}
             \cup {<<0, c, 0>> : c \in 0..MaxCoord}
             \cup {<<0, 0, 1>>}

\* The (position, heading) pairs add_rover is called with: every position
\* with the heading (pi/2, pi/2) of the driver, and the origin with
\* (pi/4, pi/4), which is not axis aligned.
AddInputs == {<<p, <<2, 2>>>> : p \in PosInputs} \cup {<<<<0, 0, 0>>, <<1, 1>>>>}

HeadingInputs == {a[2] : a \in AddInputs}

\* The (azimuth, zenith) pairs turn is called with
TurnInputs == {<<2, 0>>, <<0 - 2, 0>>, <<0, 2>>, <<0, 0 - 2>>, <<1, 0>>, <<2, 1>>}

\* The headings the callers of Next keep a rover within
AzRange == 0..MaxAz

ZenRange == {0, 1, 2}

\* A distance is <<"int", k>> for the Python int k, <<"float", k>> for the
\* float k.0, which is no instance of int.
DistInputs == {<<"int", k>> : k \in (0 - 1)..MaxDist} \cup {<<"float", 1>>}

---------------------------------------------------------------------------
(* Arithmetic of the direction vector *)

SinTab == <<0, 707, 1000, 707, 0, 0 - 707, 0 - 1000, 0 - 707>>

sin(a) == SinTab[(a % 8) + 1]

cos(a) == SinTab[((a + 2) % 8) + 1]

\* int(s * c) for s, c in thousandths: truncation toward zero
int(p) == IF p >= 0 THEN p \div 1000000 ELSE 0 - ((0 - p) \div 1000000)

\* direction with sin and cos of the azimuth exchanged
direction_swapped(h) == <<int(sin(h[2]) * sin(h[1])), int(sin(h[2]) * cos(h[1])),
                          int(cos(h[2]) * 1000)>>

direction(h) == <<int(sin(h[2]) * cos(h[1])), int(sin(h[2]) * sin(h[1])),
                  int(cos(h[2]) * 1000)>>

\* candidate two units ahead
candidate_two(r) == <<r.position[1] + 2 * direction(r.heading)[1],
                      r.position[2] + 2 * direction(r.heading)[2],
                      r.position[3] + 2 * direction(r.heading)[3]>>

candidate(r) == <<r.position[1] + direction(r.heading)[1],
                  r.position[2] + direction(r.heading)[2],
                  r.position[3] + direction(r.heading)[3]>>

---------------------------------------------------------------------------
(* Queries *)

\* is_empty with the occupancy test lost
is_empty_always(position) == TRUE

is_empty(position) == ~(\E r \in DOMAIN rovers : rovers[r].position = position)

\* in_grid that takes the vertices as sorted: the first is the lower one
in_grid_sorted(position) ==
    /\ (vertices[1][1] <= position[1] /\ position[1] <= vertices[2][1])
    /\ (vertices[1][2] <= position[2] /\ position[2] <= vertices[2][2])
    /\ (vertices[1][3] <= position[3] /\ position[3] <= vertices[2][3])

\* in_grid with the upper comparison of each chain lost
in_grid_lower(position) ==
    /\ (vertices[1][1] <= position[1] \/ vertices[2][1] <= position[1])
    /\ (vertices[1][2] <= position[2] \/ vertices[2][2] <= position[2])
    /\ (vertices[1][3] <= position[3] \/ vertices[2][3] <= position[3])

\* in_grid with the z axis forgotten
in_grid_xy(position) ==
    /\ \/ (vertices[1][1] <= position[1] /\ position[1] <= vertices[2][1])
       \/ (vertices[2][1] <= position[1] /\ position[1] <= vertices[1][1])
    /\ \/ (vertices[1][2] <= position[2] /\ position[2] <= vertices[2][2])
       \/ (vertices[2][2] <= position[2] /\ position[2] <= vertices[1][2])

in_grid(position) ==
    /\ \/ (vertices[1][1] <= position[1] /\ position[1] <= vertices[2][1])
       \/ (vertices[2][1] <= position[1] /\ position[1] <= vertices[1][1])
    /\ \/ (vertices[1][2] <= position[2] /\ position[2] <= vertices[2][2])
       \/ (vertices[2][2] <= position[2] /\ position[2] <= vertices[1][2])
    /\ \/ (vertices[1][3] <= position[3] /\ position[3] <= vertices[2][3])
       \/ (vertices[2][3] <= position[3] /\ position[3] <= vertices[1][3])

\* check_position with the test of occupancy lost
check_position_noocc(position) ==
    IF ~in_grid(position) THEN "OutOfBounds" ELSE "none"

\* check_position with the test of the grid lost
check_position_nogrid(position) ==
    IF ~is_empty(position) THEN "PositionOccupied" ELSE "none"

\* The exception check_position raises, "none" when it returns
\* check_position with the two tests in the other order
check_position_bounds_first(position) ==
    IF ~in_grid(position) THEN "OutOfBounds"
    ELSE IF ~is_empty(position) THEN "PositionOccupied"
    ELSE "none"

check_position(position) ==
    IF ~is_empty(position) THEN "PositionOccupied"
    ELSE IF ~in_grid(position) THEN "OutOfBounds"
    ELSE "none"

\* What get_rover does: the exception it raises, or the rover it returns
get_rover(rover_id) ==
    IF rover_id \notin DOMAIN rovers
    THEN [err |-> "RoverNotFound"]
    ELSE [err |-> "none", rover |-> rovers[rover_id]]

---------------------------------------------------------------------------
(* The record of the last call: the operation, its arguments (for         *)
(* add_rover the id and the position: the heading is stored unread) and    *)
(* the exception it raised ("none" when it returned); for a move also the  *)
(* position and heading it started from and the number of unit steps       *)
(* committed so far.                                                       *)

NoPos == <<>>

NoCall == [id |-> "", distance |-> 0]

Res(op, args, err) ==
    [op |-> op, args |-> args, err |-> err, start |-> NoPos, h0 |-> NoPos,
     steps |-> 0]

Init ==
    /\ vertices \in Boxes
    /\ rovers = <<>>
    /\ pc = "idle"
    /\ mv = NoCall
    /\ result = Res("init", <<>>, "none")
    /\ line = 0

---------------------------------------------------------------------------
(* Operations *)

\* add_rover without the test of the id: an existing rover is overwritten
add_rover_overwrite(rover_id, position, heading) ==
    /\ pc = "idle"
    /\ LET e == check_position(position) IN
       IF e # "none"
       THEN /\ rovers' = rovers
            /\ result' = Res("add_rover", <<rover_id, position>>, e)
       ELSE /\ rovers' = [r \in DOMAIN rovers \cup {rover_id} |->
                            IF r = rover_id
                            THEN [position |-> position, heading |-> heading]
                            ELSE rovers[r]]
            /\ result' = Res("add_rover", <<rover_id, position>>, "none")
    /\ UNCHANGED <<vertices, pc, mv>>

\* add_rover that replaces the collection by the new rover alone
add_rover_reset(rover_id, position, heading) ==
    /\ pc = "idle"
    /\ LET e == check_position(position) IN
       IF e # "none"
       THEN /\ rovers' = rovers
            /\ result' = Res("add_rover", <<rover_id, position>>, e)
       ELSE IF rover_id \notin DOMAIN rovers
       THEN /\ rovers' = [r \in {rover_id} |->
                            [position |-> position, heading |-> heading]]
            /\ result' = Res("add_rover", <<rover_id, position>>, "none")
       ELSE /\ rovers' = rovers
            /\ result' = Res("add_rover", <<rover_id, position>>, "DuplicateId")
    /\ UNCHANGED <<vertices, pc, mv>>

add_rover(rover_id, position, heading) ==
    /\ pc = "idle"
    /\ LET e == check_position(position) IN
       IF e # "none"
       THEN /\ rovers' = rovers
            /\ result' = Res("add_rover", <<rover_id, position>>, e)
       ELSE IF rover_id \notin DOMAIN rovers
       THEN /\ rovers' = [r \in DOMAIN rovers \cup {rover_id} |->
                            IF r = rover_id
                            THEN [position |-> position, heading |-> heading]
                            ELSE rovers[r]]
            /\ result' = Res("add_rover", <<rover_id, position>>, "none")
       ELSE /\ rovers' = rovers
            /\ result' = Res("add_rover", <<rover_id, position>>, "DuplicateId")
    /\ UNCHANGED <<vertices, pc, mv>>

\* turn with the azimuth wrapped into [0, 2*pi)
turn_wrap(rover_id, azimuth, zenith) ==
    /\ pc = "idle"
    /\ IF azimuth % 2 = 0 /\ zenith % 2 = 0
       THEN IF get_rover(rover_id).err # "none"
            THEN /\ rovers' = rovers
                 /\ result' = Res("turn", <<rover_id, azimuth, zenith>>,
                                get_rover(rover_id).err)
            ELSE /\ rovers' = [rovers EXCEPT ![rover_id].heading =
                                 <<(@[1] + azimuth) % 8, @[2] + zenith>>]
                 /\ result' = Res("turn", <<rover_id, azimuth, zenith>>, "none")
       ELSE /\ rovers' = rovers
            /\ result' = Res("turn", <<rover_id, azimuth, zenith>>,
                           "NonOrthogonalTurn")
    /\ UNCHANGED <<vertices, pc, mv>>

\* turn that looks the rover up before it tests the angles
turn_lookup_first(rover_id, azimuth, zenith) ==
    /\ pc = "idle"
    /\ IF get_rover(rover_id).err # "none"
       THEN /\ rovers' = rovers
            /\ result' = Res("turn", <<rover_id, azimuth, zenith>>,
                           get_rover(rover_id).err)
       ELSE IF azimuth % 2 = 0 /\ zenith % 2 = 0
       THEN /\ rovers' = [rovers EXCEPT ![rover_id].heading =
                            <<@[1] + azimuth, @[2] + zenith>>]
            /\ result' = Res("turn", <<rover_id, azimuth, zenith>>, "none")
       ELSE /\ rovers' = rovers
            /\ result' = Res("turn", <<rover_id, azimuth, zenith>>,
                           "NonOrthogonalTurn")
    /\ UNCHANGED <<vertices, pc, mv>>

\* turn that turns every rover of the controller
turn_all(rover_id, azimuth, zenith) ==
    /\ pc = "idle"
    /\ IF azimuth % 2 = 0 /\ zenith % 2 = 0
       THEN IF get_rover(rover_id).err # "none"
            THEN /\ rovers' = rovers
                 /\ result' = Res("turn", <<rover_id, azimuth, zenith>>,
                                get_rover(rover_id).err)
            ELSE /\ rovers' = [r \in DOMAIN rovers |->
                                 [rovers[r] EXCEPT !.heading =
                                     <<@[1] + azimuth, @[2] + zenith>>]]
                 /\ result' = Res("turn", <<rover_id, azimuth, zenith>>, "none")
       ELSE /\ rovers' = rovers
            /\ result' = Res("turn", <<rover_id, azimuth, zenith>>, "NonOrthogonalTurn")
    /\ UNCHANGED <<vertices, pc, mv>>

turn(rover_id, azimuth, zenith) ==
    /\ pc = "idle"
    /\ IF azimuth % 2 = 0 /\ zenith % 2 = 0
       THEN IF get_rover(rover_id).err # "none"
            THEN /\ rovers' = rovers
                 /\ result' = Res("turn", <<rover_id, azimuth, zenith>>,
                                get_rover(rover_id).err)
            ELSE /\ rovers' = [rovers EXCEPT ![rover_id].heading =
                                 <<@[1] + azimuth, @[2] + zenith>>]
                 /\ result' = Res("turn", <<rover_id, azimuth, zenith>>, "none")
       ELSE /\ rovers' = rovers
            /\ result' = Res("turn", <<rover_id, azimuth, zenith>>, "NonOrthogonalTurn")
    /\ UNCHANGED <<vertices, pc, mv>>

\* move_level that recurses with the distance it was given
move_level_same_distance(rover_id, distance, g) ==
    IF distance[1] # "int"
    THEN /\ rovers' = rovers
         /\ pc' = "idle" /\ mv' = NoCall
         /\ result' = [g EXCEPT !.err = "InvalidDistance"]
    ELSE IF distance[2] > 0
    THEN IF get_rover(rover_id).err # "none"
         THEN /\ rovers' = rovers
              /\ pc' = "idle" /\ mv' = NoCall
              /\ result' = [g EXCEPT !.err = get_rover(rover_id).err]
         ELSE LET c == candidate(get_rover(rover_id).rover)
                  e == check_position(c) IN
              IF e # "none"
              THEN /\ rovers' = rovers
                   /\ pc' = "idle" /\ mv' = NoCall
                   /\ result' = [g EXCEPT !.err = e]
              ELSE /\ rovers' = [rovers EXCEPT ![rover_id].position = c]
                   /\ pc' = "move"
                   /\ mv' = [id |-> rover_id, distance |-> distance[2]]
                   /\ result' = [g EXCEPT !.steps = @ + 1]
    ELSE /\ rovers' = rovers
         /\ pc' = "idle" /\ mv' = NoCall
         /\ result' = g

\* move_level that puts the rover back where the call started when a step fails
move_level_rollback(rover_id, distance, g) ==
    IF distance[1] # "int"
    THEN /\ rovers' = rovers
         /\ pc' = "idle" /\ mv' = NoCall
         /\ result' = [g EXCEPT !.err = "InvalidDistance"]
    ELSE IF distance[2] > 0
    THEN IF get_rover(rover_id).err # "none"
         THEN /\ rovers' = rovers
              /\ pc' = "idle" /\ mv' = NoCall
              /\ result' = [g EXCEPT !.err = get_rover(rover_id).err]
         ELSE LET c == candidate(get_rover(rover_id).rover)
                  e == check_position(c) IN
              IF e # "none"
              THEN /\ rovers' = [rovers EXCEPT ![rover_id].position = g.start]
                   /\ pc' = "idle" /\ mv' = NoCall
                   /\ result' = [g EXCEPT !.err = e]
              ELSE /\ rovers' = [rovers EXCEPT ![rover_id].position = c]
                   /\ pc' = "move"
                   /\ mv' = [id |-> rover_id, distance |-> distance[2] - 1]
                   /\ result' = [g EXCEPT !.steps = @ + 1]
    ELSE /\ rovers' = rovers
         /\ pc' = "idle" /\ mv' = NoCall
         /\ result' = g

\* move_level without the test of the type of the distance
move_level_no_isinstance(rover_id, distance, g) ==
    IF FALSE
    THEN /\ rovers' = rovers
         /\ pc' = "idle" /\ mv' = NoCall
         /\ result' = [g EXCEPT !.err = "InvalidDistance"]
    ELSE IF distance[2] > 0
    THEN IF get_rover(rover_id).err # "none"
         THEN /\ rovers' = rovers
              /\ pc' = "idle" /\ mv' = NoCall
              /\ result' = [g EXCEPT !.err = get_rover(rover_id).err]
         ELSE LET c == candidate(get_rover(rover_id).rover)
                  e == check_position(c) IN
              IF e # "none"
              THEN /\ rovers' = rovers
                   /\ pc' = "idle" /\ mv' = NoCall
                   /\ result' = [g EXCEPT !.err = e]
              ELSE /\ rovers' = [rovers EXCEPT ![rover_id].position = c]
                   /\ pc' = "move"
                   /\ mv' = [id |-> rover_id, distance |-> distance[2] - 1]
                   /\ result' = [g EXCEPT !.steps = @ + 1]
    ELSE /\ rovers' = rovers
         /\ pc' = "idle" /\ mv' = NoCall
         /\ result' = g

\* move_level that looks the rover up before it tests the distance
move_level_lookup_first(rover_id, distance, g) ==
    IF get_rover(rover_id).err # "none"
    THEN /\ rovers' = rovers
         /\ pc' = "idle" /\ mv' = NoCall
         /\ result' = [g EXCEPT !.err = get_rover(rover_id).err]
    ELSE IF distance[1] # "int"
    THEN /\ rovers' = rovers
         /\ pc' = "idle" /\ mv' = NoCall
         /\ result' = [g EXCEPT !.err = "InvalidDistance"]
    ELSE IF distance[2] > 0
    THEN LET c == candidate(get_rover(rover_id).rover)
             e == check_position(c) IN
         IF e # "none"
         THEN /\ rovers' = rovers
              /\ pc' = "idle" /\ mv' = NoCall
              /\ result' = [g EXCEPT !.err = e]
         ELSE /\ rovers' = [rovers EXCEPT ![rover_id].position = c]
              /\ pc' = "move"
              /\ mv' = [id |-> rover_id, distance |-> distance[2] - 1]
              /\ result' = [g EXCEPT !.steps = @ + 1]
    ELSE /\ rovers' = rovers
         /\ pc' = "idle" /\ mv' = NoCall
         /\ result' = g

\* One invocation of move, lines 67-78, up to its recursive call; g is the
\* record of the call it belongs to.
move_level(rover_id, distance, g) ==
    IF distance[1] # "int"
    THEN /\ rovers' = rovers
         /\ pc' = "idle" /\ mv' = NoCall
         /\ result' = [g EXCEPT !.err = "InvalidDistance"]
    ELSE IF distance[2] > 0
    THEN IF get_rover(rover_id).err # "none"
         THEN /\ rovers' = rovers
              /\ pc' = "idle" /\ mv' = NoCall
              /\ result' = [g EXCEPT !.err = get_rover(rover_id).err]
         ELSE LET c == candidate(get_rover(rover_id).rover)
                  e == check_position(c) IN
              IF e # "none"
              THEN /\ rovers' = rovers
                   /\ pc' = "idle" /\ mv' = NoCall
                   /\ result' = [g EXCEPT !.err = e]
              ELSE /\ rovers' = [rovers EXCEPT ![rover_id].position = c]
                   /\ pc' = "move"
                   /\ mv' = [id |-> rover_id, distance |-> distance[2] - 1]
                   /\ result' = [g EXCEPT !.steps = @ + 1]
    ELSE /\ rovers' = rovers
         /\ pc' = "idle" /\ mv' = NoCall
         /\ result' = g

\* A call of move by the driver
move(rover_id, distance) ==
    /\ pc = "idle"
    /\ move_level(rover_id, distance,
                  [op |-> "move", args |-> <<rover_id, distance>>,
                   err |-> "none",
                   start |-> IF rover_id \in DOMAIN rovers
                             THEN rovers[rover_id].position ELSE NoPos,
                   h0 |-> IF rover_id \in DOMAIN rovers
                          THEN rovers[rover_id].heading ELSE NoPos,
                   steps |-> 0])
    /\ UNCHANGED vertices

\* The recursive call of line 78
move_rec ==
    /\ pc = "move"
    /\ move_level(mv.id, <<"int", mv.distance>>, result)
    /\ UNCHANGED vertices

\* Headings accumulate without bound: the callers of the model stop turning
\* a rover whose heading would leave AzRange or ZenRange.
InRange(rover_id, azimuth, zenith) ==
    (rover_id \in DOMAIN rovers /\ azimuth % 2 = 0 /\ zenith % 2 = 0)
        => /\ rovers[rover_id].heading[1] + azimuth \in AzRange
           /\ rovers[rover_id].heading[2] + zenith \in ZenRange

\* Any caller: the calls in any order, with any of the inputs
Next ==
    \/ \E id \in IDs, a \in AddInputs :
          add_rover(id, a[1], a[2]) /\ UNCHANGED line
    \/ \E id \in IDs, t \in TurnInputs :
          InRange(id, t[1], t[2]) /\ turn(id, t[1], t[2]) /\ UNCHANGED line
    \/ \E id \in IDs, d \in DistInputs : move(id, d) /\ UNCHANGED line
    \/ move_rec /\ UNCHANGED line

Spec == Init /\ [][Next]_vars

\* The interpreter runs a call to its end: the recursion is never suspended.
LiveSpec == Spec /\ WF_vars(move_rec /\ UNCHANGED line)

---------------------------------------------------------------------------
(* The vertices setter and the queries as calls of their own *)

\* The record of a query: what it returned
QRes(op, args, ret) ==
    [op |-> op, args |-> args, err |-> "none", start |-> NoPos, h0 |-> NoPos,
     steps |-> 0, ret |-> ret]

\* _set_vertices, lines 126-135, the value being a tuple of tuples; both
\* of its exceptions are the failure "InvalidBoundingBox".
set_vertices(v) ==
    /\ pc = "idle"
    /\ IF Len(v) = 2
       THEN IF Len(v[1]) = 3 /\ Len(v[2]) = 3
            THEN /\ vertices' = v
                 /\ result' = Res("set_vertices", <<v>>, "none")
            ELSE /\ vertices' = vertices
                 /\ result' = Res("set_vertices", <<v>>, "InvalidBoundingBox")
       ELSE /\ vertices' = vertices
            /\ result' = Res("set_vertices", <<v>>, "InvalidBoundingBox")
    /\ UNCHANGED <<rovers, pc, mv, line>>

in_grid_call(position) ==
    /\ pc = "idle"
    /\ result' = QRes("in_grid", <<position>>, in_grid(position))
    /\ UNCHANGED <<vertices, rovers, pc, mv, line>>

---------------------------------------------------------------------------
(* in_grid on its own: a controller without rovers, constructed with any   *)
(* two vertices of a small cube, asked about the cells of the cube and of   *)
(* the layer around it, its vertices assigned again in the other order     *)

GridMax == 1

GridCells == {<<x, y, z>> : x \in 0..GridMax, y \in 0..GridMax, z \in 0..GridMax}

GridBoxes == {<<a, b>> : a \in GridCells, b \in GridCells}

Probes == {<<x, y, z>> : x \in (0 - 1)..(GridMax + 1),
                         y \in (0 - 1)..(GridMax + 1),
                         z \in (0 - 1)..(GridMax + 1)}

GridInit ==
    /\ vertices \in GridBoxes
    /\ rovers = <<>>
    /\ pc = "idle"
    /\ mv = NoCall
    /\ result = Res("init", <<>>, "none")
    /\ line = 0

GridNext ==
    \/ \E p \in Probes : in_grid_call(p)
    \/ set_vertices(<<vertices[2], vertices[1]>>)

GridSpec == GridInit /\ [][GridNext]_vars

---------------------------------------------------------------------------
(* The box replaced while the controller holds rovers: rovers are added,   *)
(* the property vertices is assigned well-formed and malformed values, and *)
(* check_position is asked about cells inside and outside the box.         *)

\* check_position called on its own, lines 114-120
check_position_call(position) ==
    /\ pc = "idle"
    /\ result' = Res("check_position", <<position>>, check_position(position))
    /\ UNCHANGED <<vertices, rovers, pc, mv, line>>

VertexInputs == Boxes \cup {<<<<0, 0, 0>>>>, <<<<0, 0>>, <<0, 0, 0>>>>}

SetProbes == PosInputs \cup {<<MaxCoord + 1, 0, 0>>}

SetNext ==
    \/ \E id \in IDs, a \in AddInputs : add_rover(id, a[1], a[2]) /\ UNCHANGED line
    \/ \E v \in VertexInputs : set_vertices(v)
    \/ \E p \in SetProbes : check_position_call(p)

SetSpec == Init /\ [][SetNext]_vars

---------------------------------------------------------------------------
(* The operations together with the queries called on their own *)

\* get_rover called on its own, lines 49-54
get_rover_call(rover_id) ==
    /\ pc = "idle"
    /\ result' = IF get_rover(rover_id).err # "none"
                 THEN Res("get_rover", <<rover_id>>, get_rover(rover_id).err)
                 ELSE QRes("get_rover", <<rover_id>>, get_rover(rover_id).rover)
    /\ UNCHANGED <<vertices, rovers, pc, mv, line>>

\* is_empty called on its own, lines 95-99
is_empty_call(position) ==
    /\ pc = "idle"
    /\ result' = QRes("is_empty", <<position>>, is_empty(position))
    /\ UNCHANGED <<vertices, rovers, pc, mv, line>>

QueryProbes == {<<0, 0, 0>>, <<MaxCoord, 0, 0>>}

QueryNext ==
    \/ Next
    \/ \E id \in IDs : get_rover_call(id)
    \/ \E p \in QueryProbes : is_empty_call(p)
    \/ \E p \in QueryProbes : in_grid_call(p)
    \/ \E p \in QueryProbes : check_position_call(p)

QuerySpec == Init /\ [][QueryNext]_vars

---------------------------------------------------------------------------
(* The driver of lines 141-171: its statements in order, an exception      *)
(* ending the run.  The box of the driver is ((0,0,0),(5,5,0)); the same   *)
(* script is also run in smaller and larger square boxes.                   *)

DriverMax == 6

DriverBoxes == {<<<<0, 0, 0>>, <<b, b, 0>>>> : b \in 1..DriverMax}

Script ==
    << <<"add_rover", "rover1", <<1, 2, 0>>, <<2, 2>>>>,
       <<"turn", "rover1", 2, 0>>,
       <<"move", "rover1", 1>>,
       <<"turn", "rover1", 2, 0>>,
       <<"move", "rover1", 1>>,
       <<"turn", "rover1", 2, 0>>,
       <<"move", "rover1", 1>>,
       <<"turn", "rover1", 2, 0>>,
       <<"move", "rover1", 1>>,
       <<"move", "rover1", 1>>,
       <<"add_rover", "rover2", <<3, 3, 0>>, <<0, 2>>>>,
       <<"move", "rover2", 1>>,
       <<"move", "rover2", 1>>,
       <<"turn", "rover2", 0 - 2, 0>>,
       <<"move", "rover2", 1>>,
       <<"move", "rover2", 1>>,
       <<"turn", "rover2", 0 - 2, 0>>,
       <<"move", "rover2", 1>>,
       <<"turn", "rover2", 0 - 2, 0>>,
       <<"turn", "rover2", 0 - 2, 0>>,
       <<"move", "rover2", 1>> >>

DriverInit ==
    /\ vertices \in DriverBoxes
    /\ rovers = <<>>
    /\ pc = "idle"
    /\ mv = NoCall
    /\ result = Res("init", <<>>, "none")
    /\ line = 0

\* The next statement of the script, when no exception has ended the run
Statement(op) ==
    /\ pc = "idle" /\ result.err = "none"
    /\ line < Len(Script) /\ Script[line + 1][1] = op
    /\ line' = line + 1

driver_add_rover ==
    /\ Statement("add_rover")
    /\ add_rover(Script[line + 1][2], Script[line + 1][3], Script[line + 1][4])

driver_turn ==
    /\ Statement("turn")
    /\ turn(Script[line + 1][2], Script[line + 1][3], Script[line + 1][4])

driver_move ==
    /\ Statement("move")
    /\ move(Script[line + 1][2], <<"int", Script[line + 1][3]>>)

DriverNext ==
    \/ driver_add_rover
    \/ driver_turn
    \/ driver_move
    \/ move_rec /\ UNCHANGED line

\* The interpreter runs the script to its end or to its first exception.
DriverSpec == DriverInit /\ [][DriverNext]_vars /\ WF_vars(DriverNext)

---------------------------------------------------------------------------
(* The bounding box, stated from the two vertices without in_grid *)

Min(a, b) == IF a <= b THEN a ELSE b

Max(a, b) == IF a <= b THEN b ELSE a

Inside(p) ==
    \A i \in 1..3 : /\ Min(vertices[1][i], vertices[2][i]) <= p[i]
                     /\ p[i] <= Max(vertices[1][i], vertices[2][i])

Occupied(p) == \E r \in DOMAIN rovers : rovers[r].position = p

---------------------------------------------------------------------------
\* C1: in every reachable state, the states between the unit steps of a move
\* and the states after a failed call included, every rover's position lies
\* inside the bounding box on all three axes.
C1_InBox == \A r \in DOMAIN rovers : Inside(rovers[r].position)

\* A move that committed a step and then failed at the edge of the box.
C1_Witness ==
    /\ pc = "idle"
    /\ result.op = "move" /\ result.err = "OutOfBounds" /\ result.steps >= 1

\* C2: in every reachable state, the states between the unit steps of a move
\* included, no two distinct rover ids have the same position.
C2_NoCollision ==
    \A r1, r2 \in DOMAIN rovers :
        r1 # r2 => rovers[r1].position # rovers[r2].position

\* Between two unit steps of a move, with the other rover in the cell ahead.
C2_Witness ==
    /\ pc = "move" /\ mv.distance > 0
    /\ \E o \in DOMAIN rovers :
          o # mv.id /\ rovers[o].position = candidate(rovers[mv.id])

\* The step is a call add_rover(id, p, h)
IsAdd(id, p, h) ==
    /\ result'.op = "add_rover" /\ result'.args = <<id, p>>
    /\ add_rover(id, p, h)

\* C3 as stated: add_rover with an id that is already present fails with
\* DuplicateId whatever the position is, and leaves the rovers unchanged.
C3_Original ==
    [][result'.op = "add_rover" =>
         \A h \in HeadingInputs :
             (IsAdd(result'.args[1], result'.args[2], h)
                  /\ result'.args[1] \in DOMAIN rovers)
                 => (result'.err = "DuplicateId" /\ rovers' = rovers)]_vars

\* C3 amended: add_rover with an id that is already present always fails and
\* leaves the rovers unchanged; the failure is PositionOccupied when the
\* position is occupied, OutOfBounds when it is free but outside the box,
\* and DuplicateId only when the position is free and inside the box.
C3_Amended ==
    [][result'.op = "add_rover" =>
         \A h \in HeadingInputs :
             (IsAdd(result'.args[1], result'.args[2], h)
                  /\ result'.args[1] \in DOMAIN rovers)
                 => /\ rovers' = rovers
                    /\ result'.err =
                          (IF Occupied(result'.args[2]) THEN "PositionOccupied"
                           ELSE IF ~Inside(result'.args[2]) THEN "OutOfBounds"
                           ELSE "DuplicateId")]_vars

\* An id that is present was added again at an occupied position.
C3_Witness ==
    /\ result.op = "add_rover" /\ result.err = "PositionOccupied"
    /\ result.args[1] \in DOMAIN rovers

\* C4: add_rover with a new id fails with PositionOccupied at the position of
\* an existing rover and with OutOfBounds at a position outside the box; every
\* failing add_rover leaves the rovers and the bounding box as they were.
C4_AddFailure ==
    [][result'.op = "add_rover" =>
         \A h \in HeadingInputs :
             IsAdd(result'.args[1], result'.args[2], h)
                 => /\ (result'.args[1] \notin DOMAIN rovers
                           /\ Occupied(result'.args[2]))
                           => result'.err = "PositionOccupied"
                    /\ (result'.args[1] \notin DOMAIN rovers
                           /\ ~Inside(result'.args[2]))
                           => result'.err = "OutOfBounds"
                    /\ result'.err # "none"
                           => (rovers' = rovers /\ vertices' = vertices)]_vars

\* A new id was refused at the position of the rover that exists.
C4_Witness ==
    /\ result.op = "add_rover" /\ result.err = "PositionOccupied"
    /\ result.args[1] \notin DOMAIN rovers

\* C5: add_rover with a new id and a free position inside the box succeeds;
\* get_rover then returns the position and heading supplied, and every rover
\* that existed keeps its position and heading.
C5_AddSuccess ==
    [][result'.op = "add_rover" =>
         \A id \in IDs, h \in HeadingInputs :
             (IsAdd(id, result'.args[2], h) /\ id \notin DOMAIN rovers
                  /\ Inside(result'.args[2]) /\ ~Occupied(result'.args[2]))
                 => /\ result'.err = "none"
                    /\ get_rover(id)' =
                           [err |-> "none",
                            rover |-> [position |-> result'.args[2],
                                       heading |-> h]]
                    /\ \A r \in DOMAIN rovers :
                           get_rover(r)' = get_rover(r)]_vars

\* A second rover was added next to an existing one.
C5_Witness ==
    /\ result.op = "add_rover" /\ result.err = "none"
    /\ Cardinality(DOMAIN rovers) = 2

---------------------------------------------------------------------------
(* The last call when it is a move(id, n) with an integer n > 0 of a rover *)
(* that exists, and the cells ahead of where it started                    *)

IsStep == result.op = "move" /\ result.start # NoPos
              /\ result.args[2][1] = "int" /\ result.args[2][2] > 0

MoveId == result.args[1]

MoveN == result.args[2][2]

MoveD == direction(result.h0)

\* The cell k unit steps ahead of the start of the call
Ahead(k) == <<result.start[1] + k * MoveD[1], result.start[2] + k * MoveD[2],
              result.start[3] + k * MoveD[3]>>

\* The candidate of step k is in the box and empty when the step is taken:
\* no other rover is there, and it is not the cell the rover itself is in.
Free(k) ==
    /\ Inside(Ahead(k))
    /\ MoveD # <<0, 0, 0>>
    /\ \A o \in DOMAIN rovers \ {MoveId} : rovers[o].position # Ahead(k)

\* Step k is the first step whose candidate is occupied or out of bounds
FirstBad(k) == ~Free(k) /\ \A j \in 1..(k - 1) : Free(j)

\* C6: move(id, n), n > 0, of an existing rover takes its unit steps one at a
\* time, each from the cell the step before reached, never more than n of
\* them, and finishes; when the n cells ahead are all in the box and empty it
\* ends without error at start + n*d with the heading unchanged.
C6_MoveSteps ==
    /\ [](IsStep => result.steps <= MoveN)
    /\ []((IsStep /\ pc = "idle" /\ \A k \in 1..MoveN : Free(k))
              => /\ result.err = "none"
                 /\ rovers[MoveId].position = Ahead(MoveN)
                 /\ rovers[MoveId].heading = result.h0)
    /\ [][(result'.op = "move" /\ rovers' # rovers)
              => /\ result'.steps = (IF pc = "idle" THEN 0 ELSE result.steps) + 1
                 /\ rovers' = [rovers EXCEPT ![result'.args[1]].position =
                                 candidate(rovers[result'.args[1]])]]_vars
    /\ [][(pc = "move" /\ pc' = "move")
              => (mv'.distance >= 0 /\ mv'.distance < mv.distance)]_vars
    /\ ((pc = "move") ~> (pc = "idle"))

\* A move of two steps ended without error.
C6_Witness ==
    /\ IsStep /\ pc = "idle" /\ result.err = "none"
    /\ MoveN = 2 /\ result.steps = 2 /\ rovers[MoveId].position = Ahead(2)

\* C7: when step k of move(id, n) is the first whose candidate is occupied or
\* out of bounds, the call fails with the error of that step (occupancy
\* before bounds), takes no later step and leaves the rover at
\* start + (k-1)*d: the k-1 steps committed before are kept.
C7_PartialMove ==
    (IsStep /\ pc = "idle")
        => \A k \in 1..MoveN :
             FirstBad(k)
                 => /\ result.err = (IF Inside(Ahead(k)) THEN "PositionOccupied"
                                     ELSE "OutOfBounds")
                    /\ result.steps = k - 1
                    /\ rovers[MoveId].position = Ahead(k - 1)

\* A move of two steps failed at its second step, the first one kept.
C7_Witness ==
    /\ IsStep /\ pc = "idle" /\ MoveN = 2 /\ FirstBad(2)
    /\ result.err = "PositionOccupied"
    /\ rovers[MoveId].position = Ahead(1) /\ Ahead(1) # result.start

\* C8 as stated: a move with positive distance of a rover whose heading
\* truncates to the direction (0,0,0) leaves the position unchanged and
\* raises no error.
C8_Original ==
    (IsStep /\ pc = "idle" /\ MoveD = <<0, 0, 0>>)
        => (rovers[MoveId].position = result.start /\ result.err = "none")

\* C8 amended: a move with positive distance of a rover whose heading
\* truncates to the direction (0,0,0) leaves the position unchanged, but not
\* silently: its first step fails with PositionOccupied, the candidate being
\* the cell the rover itself is in.
C8_Amended ==
    (IsStep /\ pc = "idle" /\ MoveD = <<0, 0, 0>>)
        => /\ rovers[MoveId].position = result.start
           /\ result.err = "PositionOccupied"
           /\ result.steps = 0

\* The only rover of the controller, heading (pi/4, pi/4), was moved.
C8_Witness ==
    /\ IsStep /\ pc = "idle" /\ MoveD = <<0, 0, 0>>
    /\ DOMAIN rovers = {MoveId} /\ result.err = "PositionOccupied"

\* The step is a call turn(id, az, zen)
IsTurn(id, az, zen) ==
    /\ result'.op = "turn" /\ result'.args = <<id, az, zen>>
    /\ turn(id, az, zen)

\* C9: turn(id, dAz, dZen) of an existing rover adds the deltas to the
\* heading when both are multiples of pi/2, without wrapping (the azimuth
\* differs from what it was whenever dAz is not 0), and changes nothing
\* else; otherwise it fails with NonOrthogonalTurn and changes no heading.
C9_Turn ==
    [][result'.op = "turn" =>
         \A id \in DOMAIN rovers, t \in TurnInputs :
             IsTurn(id, t[1], t[2])
                 => IF t[1] % 2 = 0 /\ t[2] % 2 = 0
                    THEN /\ result'.err = "none"
                         /\ rovers'[id].heading =
                               <<rovers[id].heading[1] + t[1],
                                 rovers[id].heading[2] + t[2]>>
                         /\ t[1] # 0 =>
                               rovers'[id].heading[1] # rovers[id].heading[1]
                         /\ rovers'[id].position = rovers[id].position
                         /\ \A o \in DOMAIN rovers \ {id} : rovers'[o] = rovers[o]
                    ELSE /\ result'.err = "NonOrthogonalTurn"
                         /\ rovers' = rovers]_vars

\* A turn of pi/2 brought an azimuth to 2*pi, a full turn above 0.
C9_Witness ==
    /\ result.op = "turn" /\ result.err = "none" /\ result.args[2] = 2
    /\ rovers[result.args[1]].heading[1] = 8

\* C10 as stated: turn with an id that is not present fails with
\* RoverNotFound whatever the deltas are, and changes no rover.
C10_Original ==
    [][result'.op = "turn" =>
         \A id \in IDs \ DOMAIN rovers, t \in TurnInputs :
             IsTurn(id, t[1], t[2])
                 => (result'.err = "RoverNotFound" /\ rovers' = rovers)]_vars

\* C10 amended: turn with an id that is not present always fails and changes
\* no rover; it fails with RoverNotFound when both deltas are multiples of
\* pi/2 and with NonOrthogonalTurn when one of them is not, the angles being
\* tested before the rover is looked up.
C10_Amended ==
    [][result'.op = "turn" =>
         \A id \in IDs \ DOMAIN rovers, t \in TurnInputs :
             IsTurn(id, t[1], t[2])
                 => /\ rovers' = rovers
                    /\ result'.err = (IF t[1] % 2 = 0 /\ t[2] % 2 = 0
                                      THEN "RoverNotFound"
                                      ELSE "NonOrthogonalTurn")]_vars

\* A rover that does not exist was turned by an angle that is no multiple of
\* pi/2, next to one that exists.
C10_Witness ==
    /\ result.op = "turn" /\ result.err = "NonOrthogonalTurn"
    /\ result.args[1] \notin DOMAIN rovers /\ rovers # <<>>

---------------------------------------------------------------------------
\* C11: move with a distance that is no int fails with InvalidDistance before
\* any step is taken and changes no position; move with an int distance of 0
\* or less changes no position and raises no error.
C11_Distance ==
    [][(pc = "idle" /\ result'.op = "move")
          => /\ result'.args[2][1] # "int"
                   => /\ result'.err = "InvalidDistance"
                      /\ result'.steps = 0 /\ pc' = "idle"
                      /\ rovers' = rovers
             /\ (result'.args[2][1] = "int" /\ result'.args[2][2] <= 0)
                   => /\ result'.err = "none"
                      /\ result'.steps = 0 /\ pc' = "idle"
                      /\ rovers' = rovers]_vars

\* A rover that exists, with a free cell ahead of it, was moved by 1.0.
C11_Witness ==
    /\ result.op = "move" /\ result.args[2] = <<"float", 1>>
    /\ result.err = "InvalidDistance"
    /\ result.args[1] \in DOMAIN rovers
    /\ check_position(candidate(rovers[result.args[1]])) = "none"

\* The step is a call move(id, n) with an int n > 0 of a rover that exists
IsMoveOf(id) ==
    /\ pc = "idle" /\ result'.op = "move" /\ result'.args[1] = id
    /\ result'.args[2][1] = "int" /\ result'.args[2][2] > 0
    /\ id \in DOMAIN rovers

\* C12: when the cell one unit ahead of rover A is occupied by another rover
\* B, move(A, n) with n > 0 fails with PositionOccupied and leaves the
\* positions of A and of B unchanged.
C12_Blocked ==
    [][\A a \in IDs, b \in IDs :
         (IsMoveOf(a) /\ b # a /\ b \in DOMAIN rovers
              /\ rovers[b].position =
                    <<rovers[a].position[1] + direction(rovers[a].heading)[1],
                      rovers[a].position[2] + direction(rovers[a].heading)[2],
                      rovers[a].position[3] + direction(rovers[a].heading)[3]>>)
             => /\ result'.err = "PositionOccupied"
                /\ pc' = "idle"
                /\ rovers'[a].position = rovers[a].position
                /\ rovers'[b].position = rovers[b].position]_vars

\* A move of two steps was refused at once by the rover in the next cell.
C12_Witness ==
    /\ IsStep /\ pc = "idle" /\ MoveN = 2 /\ result.steps = 0
    /\ result.err = "PositionOccupied"
    /\ \E b \in DOMAIN rovers \ {MoveId} : rovers[b].position = Ahead(1)
    /\ rovers[MoveId].position = result.start

\* C13: a rover on a boundary cell whose heading points out of the box fails
\* move(id, n), n > 0, with OutOfBounds, never with PositionOccupied, and
\* keeps its position.
C13_Outward ==
    [][\A id \in IDs :
         (IsMoveOf(id)
              /\ ~Inside(<<rovers[id].position[1] + direction(rovers[id].heading)[1],
                           rovers[id].position[2] + direction(rovers[id].heading)[2],
                           rovers[id].position[3] + direction(rovers[id].heading)[3]>>))
             => /\ result'.err = "OutOfBounds"
                /\ pc' = "idle"
                /\ rovers' = rovers]_vars

\* A rover at the far end of the box was moved further along the axis.
C13_Witness ==
    /\ IsStep /\ pc = "idle" /\ result.steps = 0
    /\ result.err = "OutOfBounds" /\ ~Inside(Ahead(1))
    /\ rovers[MoveId].position = result.start
    /\ result.start # <<0, 0, 0>>

---------------------------------------------------------------------------
\* C14: in_grid(p) is true exactly when each coordinate of p lies in the
\* closed interval between the two vertices' coordinates on its axis, in
\* whichever order they are; both vertices are in the grid, and the answer
\* for every p is the same after the two vertices are swapped.
C14_InGrid ==
    /\ [](result.op = "in_grid" => (result.ret <=> Inside(result.args[1])))
    /\ [](in_grid(vertices[1]) /\ in_grid(vertices[2]))
    /\ [][vertices' = <<vertices[2], vertices[1]>>
             => \A p \in Probes : in_grid(p)' <=> in_grid(p)]_vars

\* A cell was found in a box whose vertices are in descending order on x and
\* in ascending order on y.
C14_Witness ==
    /\ result.op = "in_grid" /\ result.ret
    /\ vertices[1][1] > vertices[2][1] /\ vertices[1][2] < vertices[2][2]
    /\ result.args[1] \notin {vertices[1], vertices[2]}

---------------------------------------------------------------------------
(* The run of the driver in its own box *)

DriverBox == vertices = <<<<0, 0, 0>>, <<5, 5, 0>>>>

DriverDone == DriverBox /\ line = Len(Script) /\ pc = "idle"

\* C15: in the box ((0,0,0),(5,5,0)) the script of the driver raises no
\* error and runs to its end, where rover1 is at (1,3,0) with azimuth 5*pi/2
\* and rover2 at (5,1,0) with azimuth -2*pi, both zeniths pi/2.
C15_Driver ==
    /\ [](DriverBox => result.err = "none")
    /\ [](DriverDone
            => rovers = [r \in {"rover1", "rover2"} |->
                           IF r = "rover1"
                           THEN [position |-> <<1, 3, 0>>, heading |-> <<10, 2>>]
                           ELSE [position |-> <<5, 1, 0>>,
                                 heading |-> <<0 - 8, 2>>]])
    /\ (DriverBox ~> DriverDone)

\* The last statement of the script has been run in the box of the driver.
C15_Witness ==
    /\ DriverDone /\ result.op = "move" /\ result.args[1] = "rover2"
    /\ result.err = "none" /\ DOMAIN rovers = {"rover1", "rover2"}

---------------------------------------------------------------------------
(* Single-step motion *)

Abs(n) == IF n < 0 THEN 0 - n ELSE n

\* The displacement of rover r over a step
Delta(r) == [i \in 1..3 |-> rovers'[r].position[i] - rovers[r].position[i]]

\* The scalar product of a displacement with the unit vector of heading h,
\* in millionths
Along(d, h) == d[1] * sin(h[2]) * cos(h[1]) + d[2] * sin(h[2]) * sin(h[1])
                   + d[3] * cos(h[2]) * 1000

\* C16: every committed change of position moves exactly one rover by
\* exactly one unit along one axis, in the direction of its heading: never
\* diagonally, by more than one unit, backward or by zero.
C16_UnitStep ==
    [][\A r \in DOMAIN rovers :
          (r \in DOMAIN rovers' /\ rovers'[r].position # rovers[r].position)
              => /\ \A o \in DOMAIN rovers \ {r} : rovers'[o] = rovers[o]
                 /\ DOMAIN rovers' = DOMAIN rovers
                 /\ Abs(Delta(r)[1]) + Abs(Delta(r)[2]) + Abs(Delta(r)[3]) = 1
                 /\ Along(Delta(r), rovers[r].heading) = 1000000
                 /\ rovers'[r].heading = rovers[r].heading]_vars

\* A call of move has committed a step while another rover stands by.
C16_Witness ==
    /\ result.op = "move" /\ result.steps >= 1 /\ result.err = "none"
    /\ Cardinality(DOMAIN rovers) = 2
    /\ rovers[result.args[1]].position # result.start

---------------------------------------------------------------------------
(* check_position and the assignment of vertices *)

\* C17: check_position tests occupancy before bounds: an occupied position
\* fails with PositionOccupied also when it is outside the box, OutOfBounds
\* is the failure of an unoccupied position outside the box only, and an
\* unoccupied position inside the box does not fail.
C17_Precedence ==
    result.op = "check_position"
        => result.err = IF Occupied(result.args[1]) THEN "PositionOccupied"
                        ELSE IF ~Inside(result.args[1]) THEN "OutOfBounds"
                        ELSE "none"

\* check_position has refused, as occupied, a position outside the box.
C17_Witness ==
    /\ result.op = "check_position" /\ result.err = "PositionOccupied"
    /\ Occupied(result.args[1]) /\ ~Inside(result.args[1])

\* C18: after a successful assignment of a well-formed box to a controller
\* that holds rovers, every rover's position lies within the current box.
C18_InBoxAfterSet ==
    (result.op = "set_vertices" /\ result.err = "none" /\ DOMAIN rovers # {})
        => \A r \in DOMAIN rovers : Inside(rovers[r].position)

---------------------------------------------------------------------------
(* Frame conditions *)

Queries == {"get_rover", "is_empty", "in_grid", "check_position"}

\* Every rover of the controller is kept, and every rover but the named one
\* is kept as it is.
OthersKept(id) ==
    /\ DOMAIN rovers \subseteq DOMAIN rovers'
    /\ \A r \in DOMAIN rovers \ {id} : rovers'[r] = rovers[r]

\* C19: turn changes only the heading of the named rover, move only the
\* position of the named rover, the queries get_rover, is_empty, in_grid and
\* check_position change nothing; no operation changes another rover,
\* removes a rover or changes the box, and only a successful add_rover adds
\* an id, exactly one.
C19_Frame ==
    [][/\ vertices' = vertices
       /\ OthersKept(result'.args[1])
       /\ result'.op = "turn"
            => /\ DOMAIN rovers' = DOMAIN rovers
               /\ \A r \in DOMAIN rovers :
                     rovers'[r].position = rovers[r].position
       /\ result'.op = "move"
            => /\ DOMAIN rovers' = DOMAIN rovers
               /\ \A r \in DOMAIN rovers :
                     rovers'[r].heading = rovers[r].heading
       /\ result'.op \in Queries => rovers' = rovers
       /\ result'.op = "add_rover"
            => /\ \A r \in DOMAIN rovers : rovers'[r] = rovers[r]
               /\ IF result'.err = "none"
                  THEN /\ result'.args[1] \notin DOMAIN rovers
                       /\ DOMAIN rovers' = DOMAIN rovers \cup {result'.args[1]}
                  ELSE rovers' = rovers
       /\ DOMAIN rovers' # DOMAIN rovers
            => result'.op = "add_rover" /\ result'.err = "none"]_vars

\* A rover has turned while another rover, away from the origin, stands by.
C19_Witness ==
    /\ result.op = "turn" /\ result.err = "none"
    /\ Cardinality(DOMAIN rovers) = 2
    /\ rovers[result.args[1]].heading # <<2, 2>>
    /\ \E o \in DOMAIN rovers \ {result.args[1]} :
          rovers[o].heading = <<2, 2>> /\ rovers[o].position # <<0, 0, 0>>

---------------------------------------------------------------------------
(* move of a rover the controller does not hold *)

\* C20: move with an id that is not present changes nothing; it fails with
\* InvalidDistance when the distance is not an integer, returns without an
\* error when the distance is an integer of 0 or less, and fails with
\* RoverNotFound when the distance is a positive integer.
C20_MoveAbsent ==
    [][(pc = "idle" /\ result'.op = "move"
            /\ result'.args[1] \notin DOMAIN rovers)
          => /\ rovers' = rovers /\ vertices' = vertices /\ pc' = "idle"
             /\ result'.err = IF result'.args[2][1] # "int"
                              THEN "InvalidDistance"
                              ELSE IF result'.args[2][2] > 0
                              THEN "RoverNotFound"
                              ELSE "none"]_vars

\* move of an absent rover by an integer distance of 0 or less has returned
\* without an error, another rover being held.
C20_Witness ==
    /\ result.op = "move" /\ result.args[1] \notin DOMAIN rovers
    /\ result.args[2][1] = "int" /\ result.args[2][2] <= 0
    /\ result.err = "none" /\ pc = "idle" /\ DOMAIN rovers # {}

====
